---------------------------- MODULE Spec2Model ----------------------------
(***************************************************************************)
(* Model of igm/common.py: the module loader (load_modules,                *)
(* load_modules_from_directory, validate_module), the dependency expander  *)
(* (has_dependencies, add_dependencies) and the JSON parameter file        *)
(* loaders (remove_comments, get_modules_list, overide_from_json_file).    *)
(*                                                                         *)
(* A Python module object is identified by its import path, modelled as a  *)
(* record [loc, name]: loc is the framework folder of                      *)
(* igm.modules.<loc>.<name>, or "cwd" for the top-level import <name>.     *)
(* A raised exception is an outcome record whose status is the exception   *)
(* class name.                                                             *)
(***************************************************************************)
EXTENDS Naturals, Sequences, FiniteSets, TLC

VARIABLES
    present,   \* present[loc]: the names importlib finds at that location
    attrs,     \* attrs[m]: the attribute names module m exposes (hasattr)
    deps,      \* deps[m]: the value of m.dependencies when m has the attribute
    file,      \* params.json: a sequence of text lines
    parser,    \* the argparse parser: registered option |-> default
    pc,        \* position of the caller
    call,      \* the last call made: function and arguments
    out        \* what the last call returned or raised

vars == <<present, attrs, deps, file, parser, pc, call, out>>

-----------------------------------------------------------------------------
(* Bounds of the model *)

\* longest names list given to load_modules_from_directory on its own
MaxLen == 2
\* most names in the three lists given to load_modules, taken together
MaxTotal == 3
\* longest dependencies list a module declares
MaxDeps == 2
\* most lines in params.json
MaxLines == 4

-----------------------------------------------------------------------------
(* The universe of modules *)

Names == {"a", "b", "d"}

\* directories_to_search, in its order
Folders == <<"preproc", "process", "postproc">>

FolderSet == {Folders[i] : i \in 1..Len(Folders)}

Cwd == "cwd"

Locations == FolderSet \cup {Cwd}

ModuleIds == [loc : Locations, name : Names]

\* a required_functions list that forgot update
required_functions_short == <<"params", "initialize", "finalize">>

required_functions == <<"params", "initialize", "finalize", "update">>

RequiredSet == {required_functions[i] : i \in 1..Len(required_functions)}

AttrNames == RequiredSet \cup {"register_params", "dependencies"}

SeqsUpTo(S, n) == UNION {[1..k -> S] : k \in 0..n}

-----------------------------------------------------------------------------
(* Outcomes and calls *)

NoOut ==
    [status |-> "none", modules |-> <<>>, name |-> "", tried |-> {},
     missing |-> "", doc |-> <<>>, pos |-> 0, dict |-> <<>>, warned |-> {}]

Returned(ms) == [NoOut EXCEPT !.status = "ok", !.modules = ms]

NoCall ==
    [fn |-> "none", names |-> <<>>, folder |-> "", module |-> <<>>,
     modules |-> <<>>, parser |-> <<>>, check |-> FALSE]

-----------------------------------------------------------------------------
(* validate_module *)

\* hasattr(module, function)
hasattr(m, a) == a \in attrs[m]

RECURSIVE first_missing(_, _)
\* the loop of validate_module: the first required function the module lacks
first_missing(m, i) ==
    IF i > Len(required_functions) THEN ""
    ELSE IF ~hasattr(m, required_functions[i]) THEN required_functions[i]
    ELSE first_missing(m, i + 1)

validate_module(m) ==
    LET f == first_missing(m, 1)
    IN  IF f = "" THEN Returned(<<>>)
        ELSE [NoOut EXCEPT !.status = "AttributeError", !.missing = f,
                           !.modules = <<m>>]

-----------------------------------------------------------------------------
(* load_modules_from_directory and load_modules *)

\* importlib.import_module succeeds for a path that exists
importable(loc, n) == n \in present[loc]

\* an import that tries the working directory before the framework
import_module_cwd_first(n, folder) ==
    IF n \in present[Cwd] THEN <<[loc |-> Cwd, name |-> n]>>
    ELSE IF n \in present[folder] THEN <<[loc |-> folder, name |-> n]>>
    ELSE <<>>

\* the two nested try blocks: the framework path first, then the plain name
import_module(n, folder) ==
    IF importable(folder, n) THEN <<[loc |-> folder, name |-> n]>>
    ELSE IF importable(Cwd, n) THEN <<[loc |-> Cwd, name |-> n]>>
    ELSE <<>>

RECURSIVE load_loop(_, _, _, _)
\* the for loop over modules_list; imported is imported_modules so far
load_loop(modules_list, folder, i, imported) ==
    IF i > Len(modules_list) THEN Returned(imported)
    ELSE LET n == modules_list[i]
             found == import_module(n, folder)
         IN  IF found = <<>>
             THEN [NoOut EXCEPT !.status = "ModuleNotFoundError", !.name = n,
                                !.tried = {folder, Cwd}, !.modules = imported]
             ELSE LET v == validate_module(found[1])
                  IN  IF v.status # "ok"
                      THEN [v EXCEPT !.modules = imported, !.name = n]
                      ELSE load_loop(modules_list, folder, i + 1,
                                     Append(imported, found[1]))

load_modules_from_directory(modules_list, folder) ==
    load_loop(modules_list, folder, 1, <<>>)

\* a load_modules that returns the process group first
load_modules_process_first(modules_dict) ==
    LET pre == load_modules_from_directory(modules_dict[1], "preproc")
        pro == load_modules_from_directory(modules_dict[2], "process")
        post == load_modules_from_directory(modules_dict[3], "postproc")
    IN  IF pre.status # "ok" THEN pre
        ELSE IF pro.status # "ok" THEN pro
        ELSE IF post.status # "ok" THEN post
        ELSE Returned(pro.modules \o pre.modules \o post.modules)

\* modules_dict is <<modules_preproc, modules_process, modules_postproc>>
load_modules(modules_dict) ==
    LET pre == load_modules_from_directory(modules_dict[1], "preproc")
    IN  IF pre.status # "ok" THEN pre
        ELSE LET pro == load_modules_from_directory(modules_dict[2], "process")
             IN  IF pro.status # "ok" THEN pro
                 ELSE LET post == load_modules_from_directory(modules_dict[3],
                                                              "postproc")
                      IN  IF post.status # "ok" THEN post
                          ELSE Returned(pre.modules \o pro.modules
                                        \o post.modules)

-----------------------------------------------------------------------------
(* has_dependencies and add_dependencies *)

has_dependencies(m) == hasattr(m, "dependencies")

RECURSIVE search_directories(_, _)
\* the loop over directories_to_search for one module's dependencies list:
\* the whole list is loaded from one directory, entry [0] of the result is
\* kept, ModuleNotFoundError moves on to the next directory and any other
\* exception leaves add_dependencies
search_directories(module_dependencies, d) ==
    IF d > Len(Folders) THEN [status |-> "ok", found |-> {}, raised |-> NoOut]
    ELSE LET r == load_modules_from_directory(module_dependencies, Folders[d])
         IN  IF r.status = "ok"
             THEN IF Len(r.modules) = 0
                  THEN [status |-> "IndexError", found |-> {},
                        raised |-> [NoOut EXCEPT !.status = "IndexError"]]
                  ELSE [status |-> "ok", found |-> {r.modules[1]},
                        raised |-> NoOut]
             ELSE IF r.status = "ModuleNotFoundError"
             THEN search_directories(module_dependencies, d + 1)
             ELSE [status |-> r.status, found |-> {}, raised |-> r]

RECURSIVE dependencies_loop(_, _, _)
\* the loop over imported_modules; acc is the set imported_dependencies
dependencies_loop(imported_modules, i, acc) ==
    IF i > Len(imported_modules)
    THEN [status |-> "ok", found |-> acc, raised |-> NoOut]
    ELSE LET m == imported_modules[i]
         IN  IF has_dependencies(m)
             THEN LET s == search_directories(deps[m], 1)
                  IN  IF s.status # "ok" THEN s
                      ELSE dependencies_loop(imported_modules, i + 1,
                                             acc \cup s.found)
             ELSE dependencies_loop(imported_modules, i + 1, acc)

\* the set imported_dependencies when the loop ends, or the exception
imported_dependencies(imported_modules) ==
    dependencies_loop(imported_modules, 1, {})

\* list(a_set): the elements once each, in an order Python does not fix
ListsOf(S) ==
    {s \in [1..Cardinality(S) -> S] : \A i, j \in DOMAIN s : s[i] = s[j] => i = j}

\* the values add_dependencies can return, or the exception it raises
add_dependencies(imported_modules) ==
    LET r == imported_dependencies(imported_modules)
    IN  IF r.status # "ok" THEN {r.raised}
        ELSE {Returned(imported_modules \o l) : l \in ListsOf(r.found)}

-----------------------------------------------------------------------------
(* The parameter file.  A line of params.json is a record [kind, key, val]: *)
(* a "member" line holds one member "key": val of the top-level object, a   *)
(* "slash" or "hash" line starts (after blanks) with // or #, and a "bad"   *)
(* line is text json.loads rejects (a block comment, a trailing comment).   *)
(* Every value is a list of strings, a scalar being a list of one.          *)

Member(k, v) == [kind |-> "member", key |-> k, val |-> v]

SlashLine == [kind |-> "slash", key |-> "", val |-> <<>>]

HashLine == [kind |-> "hash", key |-> "", val |-> <<>>]

BadLine == [kind |-> "bad", key |-> "", val |-> <<>>]

Lines ==
    {Member("modules_preproc", <<"a">>),
     Member("modules_process", <<"b">>),
     Member("modules_process", <<"b", "time_step">>),
     Member("modules_postproc", <<"d">>),
     Member("resample", <<"2">>),
     SlashLine, HashLine, BadLine}

\* line.strip().startswith(("//", "#"))
is_comment(line) == line.kind \in {"slash", "hash"}

remove_comments(json_str) == SelectSeq(json_str, LAMBDA line : ~is_comment(line))

\* json.loads: JSONDecodeError(doc, pos) at the first line that is not JSON,
\* pos counted in lines of doc; otherwise the dict, a repeated key keeping
\* its last value
json_loads(doc) ==
    LET badAt == {i \in DOMAIN doc : doc[i].kind # "member"}
        first == CHOOSE i \in badAt : \A j \in badAt : i <= j
        keys == {doc[i].key : i \in DOMAIN doc}
        last(k) == CHOOSE i \in DOMAIN doc :
                       /\ doc[i].key = k
                       /\ \A j \in DOMAIN doc : doc[j].key = k => j <= i
    IN  IF badAt # {}
        THEN [NoOut EXCEPT !.status = "JSONDecodeError", !.doc = doc,
                           !.pos = first - 1]
        ELSE [NoOut EXCEPT !.status = "ok",
                           !.dict = [k \in keys |-> doc[last(k)].val]]

module_keys == <<"modules_preproc", "modules_process", "modules_postproc">>

\* get_modules_list: the three lists, a KeyError for the first key the file
\* lacks, or the JSONDecodeError raised again with the same doc and pos
get_modules_list(json_text) ==
    LET e == json_loads(remove_comments(json_text))
        lacking == {i \in DOMAIN module_keys : module_keys[i] \notin DOMAIN e.dict}
    IN  IF e.status # "ok"
        THEN [NoOut EXCEPT !.status = "JSONDecodeError", !.doc = e.doc,
                           !.pos = e.pos]
        ELSE IF lacking # {}
        THEN [NoOut EXCEPT !.status = "KeyError",
                 !.name = module_keys[CHOOSE i \in lacking :
                                          \A j \in lacking : i <= j]]
        ELSE [NoOut EXCEPT !.status = "ok",
                 !.dict = [i \in DOMAIN module_keys |-> e.dict[module_keys[i]]]]

\* params_core: the options the core registers, with their defaults
params_core ==
    [k \in {"working_dir", "param_file", "modules_preproc", "modules_process",
            "modules_postproc", "logging", "logging_file", "print_params",
            "gpu"} |->
        CASE k = "working_dir" -> <<"">>
          [] k = "param_file" -> <<"params.json">>
          [] k = "modules_preproc" -> <<"oggm_shop">>
          [] k = "modules_process" -> <<"iceflow", "time", "thk">>
          [] k = "modules_postproc" -> <<"write_ncdf", "plot2d", "print_info">>
          [] k = "logging" -> <<"False">>
          [] k = "logging_file" -> <<"">>
          [] k = "print_params" -> <<"True">>
          [] k = "gpu" -> <<"0">>]

\* parser.add_argument / parser.set_defaults: kwargs laid over the defaults
set_defaults(p, kwargs) ==
    [k \in DOMAIN p \cup DOMAIN kwargs |->
        IF k \in DOMAIN kwargs THEN kwargs[k] ELSE p[k]]

\* params_load_ncdf_data: the options a module registers on the parser
params_load_ncdf_data(p) ==
    set_defaults(p, [k \in {"geology_file", "resample"} |->
                        IF k = "geology_file" THEN <<"geology.nc">> ELSE <<"1">>])

\* a comprehension that forgot the test "if key in LIST"
filtered_dict_unfiltered(dic_params, LIST) == dic_params

\* the dict comprehension: the file's members whose key is in LIST
filtered_dict(dic_params, LIST) ==
    [k \in DOMAIN dic_params \cap LIST |-> dic_params[k]]

\* an overide_from_json_file that tests for time_step after set_defaults
overide_then_time_step(p, json_text, check_if_params_exist) ==
    LET e == json_loads(remove_comments(json_text))
        dic_params == e.dict
        LIST == DOMAIN p
        elems(l) == {l[i] : i \in DOMAIN l}
        applied == set_defaults(p, filtered_dict(dic_params, LIST))
    IN  IF e.status # "ok"
        THEN [out |-> [NoOut EXCEPT !.status = "UnboundLocalError",
                                    !.name = "dic_params"],
              parser |-> p]
        ELSE IF "modules_process" \notin DOMAIN dic_params
        THEN [out |-> [NoOut EXCEPT !.status = "KeyError",
                                    !.name = "modules_process"],
              parser |-> applied]
        ELSE IF "time_step" \in elems(dic_params["modules_process"])
        THEN [out |-> [NoOut EXCEPT !.status = "SystemExit",
                                    !.name = "time_step"],
              parser |-> applied]
        ELSE [out |-> [NoOut EXCEPT !.status = "ok",
                          !.warned = IF check_if_params_exist
                                     THEN DOMAIN dic_params \ LIST ELSE {}],
              parser |-> applied]

\* overide_from_json_file: the outcome and the parser it leaves.  A
\* JSONDecodeError is caught and printed, dic_params stays unbound and its
\* first use raises UnboundLocalError.
overide_from_json_file(p, json_text, check_if_params_exist) ==
    LET e == json_loads(remove_comments(json_text))
        dic_params == e.dict
        LIST == DOMAIN p
        elems(l) == {l[i] : i \in DOMAIN l}
    IN  IF e.status # "ok"
        THEN [out |-> [NoOut EXCEPT !.status = "UnboundLocalError",
                                    !.name = "dic_params"],
              parser |-> p]
        ELSE IF "modules_process" \notin DOMAIN dic_params
        THEN [out |-> [NoOut EXCEPT !.status = "KeyError",
                                    !.name = "modules_process"],
              parser |-> p]
        ELSE IF "time_step" \in elems(dic_params["modules_process"])
        THEN [out |-> [NoOut EXCEPT !.status = "SystemExit",
                                    !.name = "time_step"],
              parser |-> p]
        ELSE [out |-> [NoOut EXCEPT !.status = "ok",
                          !.warned = IF check_if_params_exist
                                     THEN DOMAIN dic_params \ LIST ELSE {}],
              parser |-> set_defaults(p, filtered_dict(dic_params, LIST))]

-----------------------------------------------------------------------------
(* Initial states.  Each specification draws the part of the environment   *)
(* its operations read and holds the rest at the values below.             *)

NoModules == [l \in Locations |-> {}]

AllValid == [m \in ModuleIds |-> RequiredSet]

NoDeps == [m \in ModuleIds |-> <<>>]

\* the names the caller puts in modules_preproc, modules_process, modules_postproc
PipelineNames == {"a", "b"}

\* a user module of the working directory that forgot one required function
Incomplete == RequiredSet \ {"finalize"}

\* the arguments of load_modules: three lists of at most MaxTotal names in all
Dicts ==
    LET L == SeqsUpTo(PipelineNames, MaxTotal)
    IN  {d \in L \X L \X L : Len(d[1]) + Len(d[2]) + Len(d[3]) <= MaxTotal}

Elems(l) == {l[i] : i \in DOMAIN l}

\* the declarations that name no module twice
PipelineDicts ==
    {d \in Dicts :
        /\ Cardinality(Elems(d[1] \o d[2] \o d[3])) = Len(d[1] \o d[2] \o d[3])}

Idle ==
    /\ pc = "start"
    /\ call = NoCall
    /\ out = NoOut

\* the loader: any placement of the pipeline names, framework modules
\* complete, working-directory modules complete or not
Init ==
    /\ present \in [Locations -> SUBSET PipelineNames]
    /\ attrs \in {[m \in ModuleIds |->
                      IF m.loc = Cwd /\ m.name \in S
                      THEN Incomplete ELSE RequiredSet] :
                  S \in SUBSET PipelineNames}
    /\ deps = NoDeps
    /\ file = <<>>
    /\ parser = params_core
    /\ Idle

\* the validator: one module, with any set of attributes
InitValidate ==
    /\ present = [NoModules EXCEPT ![Cwd] = {"a"}]
    /\ attrs \in {[AllValid EXCEPT ![[loc |-> Cwd, name |-> "a"]] = A] :
                     A \in SUBSET AttrNames}
    /\ deps = NoDeps
    /\ file = <<>>
    /\ parser = params_core
    /\ Idle

\* what the dependencies attribute of module n can be: absent, or a list of
\* names of other modules
DepChoices(n) ==
    {[has |-> FALSE, list |-> <<>>]}
        \cup {[has |-> TRUE, list |-> l] : l \in SeqsUpTo(Names \ {n}, MaxDeps)}

ModA == [loc |-> "preproc", name |-> "a"]

ModB == [loc |-> "process", name |-> "b"]

\* the expander: pipeline modules a (preproc) and b (process) with any
\* dependencies attribute, and a third module d placed anywhere or nowhere
InitDeps ==
    /\ present \in {[l \in Locations |->
                        (IF l = "preproc" THEN {"a"} ELSE {})
                        \cup (IF l = "process" THEN {"b"} ELSE {})
                        \cup (IF l \in D THEN {"d"} ELSE {})] :
                    D \in SUBSET Locations}
    /\ \E ca \in DepChoices("a"), cb \in DepChoices("b") :
          /\ attrs = [m \in ModuleIds |->
                         RequiredSet \cup
                         (IF \/ m = ModA /\ ca.has
                             \/ m = ModB /\ cb.has
                          THEN {"dependencies"} ELSE {})]
          /\ deps = [m \in ModuleIds |->
                        IF m = ModA THEN ca.list
                        ELSE IF m = ModB THEN cb.list ELSE <<>>]
    /\ file = <<>>
    /\ parser = params_core
    /\ Idle

\* the parameter file: any lines, and a parser holding the core options
\* with or without the options of one module
InitJson ==
    /\ present = NoModules
    /\ attrs = AllValid
    /\ deps = NoDeps
    /\ file \in SeqsUpTo(Lines, MaxLines)
    /\ parser \in {params_core, params_load_ncdf_data(params_core)}
    /\ Idle

-----------------------------------------------------------------------------
(* Actions: one per function of common.py the caller invokes *)

Env == <<present, attrs, deps, file>>

ValidateModule ==
    /\ pc = "start"
    /\ \E m \in ModuleIds :
          /\ importable(m.loc, m.name)
          /\ call' = [NoCall EXCEPT !.fn = "validate_module", !.module = m]
          /\ out' = validate_module(m)
    /\ pc' = "done"
    /\ UNCHANGED <<Env, parser>>

LoadModulesFromDirectory ==
    /\ pc = "start"
    /\ \E modules_list \in SeqsUpTo(PipelineNames, MaxLen), folder \in FolderSet :
          /\ call' = [NoCall EXCEPT !.fn = "load_modules_from_directory",
                                    !.names = modules_list, !.folder = folder]
          /\ out' = load_modules_from_directory(modules_list, folder)
    /\ pc' = "done"
    /\ UNCHANGED <<Env, parser>>

LoadModules(D) ==
    /\ pc = "start"
    /\ \E modules_dict \in D :
          /\ call' = [NoCall EXCEPT !.fn = "load_modules", !.names = modules_dict]
          /\ out' = load_modules(modules_dict)
    /\ pc' = "loaded"
    /\ UNCHANGED <<Env, parser>>

\* imported_modules = add_dependencies(imported_modules), after load_modules
\* returned
AddDependencies ==
    /\ pc = "loaded"
    /\ out.status = "ok"
    /\ call' = [call EXCEPT !.fn = "add_dependencies", !.modules = out.modules]
    /\ out' \in add_dependencies(out.modules)
    /\ pc' = "expanded"
    /\ UNCHANGED <<Env, parser>>

GetModulesList ==
    /\ pc = "start"
    /\ call' = [NoCall EXCEPT !.fn = "get_modules_list", !.parser = parser]
    /\ out' = get_modules_list(file)
    /\ pc' = "done"
    /\ UNCHANGED <<Env, parser>>

OverideFromJsonFile ==
    /\ pc = "start"
    /\ \E check_if_params_exist \in BOOLEAN :
          LET r == overide_from_json_file(parser, file, check_if_params_exist)
          IN  /\ call' = [NoCall EXCEPT !.fn = "overide_from_json_file",
                                        !.parser = parser,
                                        !.check = check_if_params_exist]
              /\ out' = r.out
              /\ parser' = r.parser
    /\ pc' = "done"
    /\ UNCHANGED Env

Next ==
    \/ LoadModulesFromDirectory
    \/ LoadModules(Dicts)

Spec == Init /\ [][Next]_vars

NextValidate == ValidateModule

SpecValidate == InitValidate /\ [][NextValidate]_vars

NextDeps ==
    \/ LoadModules(PipelineDicts)
    \/ AddDependencies

SpecDeps == InitDeps /\ [][NextDeps]_vars

NextJson ==
    \/ GetModulesList
    \/ OverideFromJsonFile

SpecJson == InitJson /\ [][NextJson]_vars

-----------------------------------------------------------------------------
(* Claims about validate_module (SpecValidate) *)

Validated == pc = "done" /\ call.fn = "validate_module"

\* C2 as stated: validate_module succeeds exactly for the modules that expose
\* register_params, initialize, update and finalize, and fails for a module
\* lacking any one of them.
C2_AsStated ==
    Validated =>
        (out.status = "ok" <=>
            {"register_params", "initialize", "update", "finalize"}
                \subseteq attrs[call.module])

\* C2 amended: the four required capabilities are params, initialize,
\* finalize and update.  validate_module raises AttributeError, naming a
\* capability the module lacks, for every module lacking at least one of
\* them, whatever its other attributes, and returns for a module exposing
\* all four; register_params is not looked at.
C2_RequiredCapabilities ==
    Validated =>
        LET required == {"params", "initialize", "finalize", "update"}
            lacking == required \ attrs[call.module]
        IN  /\ lacking = {} => out.status = "ok"
            /\ lacking # {} =>
                  /\ out.status = "AttributeError"
                  /\ out.missing \in lacking

\* a module with register_params and dependencies that lacks only update
\* was refused
C2_Witness ==
    /\ Validated
    /\ attrs[call.module] =
           {"params", "initialize", "finalize", "register_params", "dependencies"}
    /\ out.status = "AttributeError"
    /\ out.missing = "update"

-----------------------------------------------------------------------------
(* Claims about load_modules and load_modules_from_directory (Spec) *)

\* where a name given in a category is to be found: the framework folder of
\* the category if it holds the name, otherwise the working directory
Expected(n, folder) ==
    IF n \in present[folder] THEN [loc |-> folder, name |-> n]
    ELSE [loc |-> Cwd, name |-> n]

Findable(n, folder) == n \in present[folder] \cup present[Cwd]

Complete(m) == {"params", "initialize", "finalize", "update"} \subseteq attrs[m]

Usable(n, folder) == Findable(n, folder) /\ Complete(Expected(n, folder))

Loaded == pc = "loaded" /\ call.fn = "load_modules"

\* the category of the i-th name of the concatenation of the three lists
CategoryAt(d, i) ==
    IF i <= Len(d[1]) THEN "preproc"
    ELSE IF i <= Len(d[1]) + Len(d[2]) THEN "process"
    ELSE "postproc"

\* C1: for three lists of resolvable, valid names load_modules returns a
\* list as long as the three lists together, whose i-th entry is the module
\* resolved for the i-th name of modules_preproc + modules_process +
\* modules_postproc, in the category that name was declared in.
C1_ConcatenationInOrder ==
    Loaded =>
        LET d == call.names
            all == d[1] \o d[2] \o d[3]
        IN  (\A i \in DOMAIN all : Usable(all[i], CategoryAt(d, i))) =>
                /\ out.status = "ok"
                /\ Len(out.modules) = Len(d[1]) + Len(d[2]) + Len(d[3])
                /\ \A i \in DOMAIN all :
                      out.modules[i] = Expected(all[i], CategoryAt(d, i))

\* three non-empty lists were loaded, the process name from the working
\* directory
C1_Witness ==
    /\ Loaded
    /\ call.names = <<(<<"b">>), (<<"a">>), (<<"b">>)>>
    /\ out.status = "ok"
    /\ out.modules = <<[loc |-> "preproc", name |-> "b"],
                       [loc |-> Cwd, name |-> "a"],
                       [loc |-> "postproc", name |-> "b"]>>

LoadedFromDirectory == pc = "done" /\ call.fn = "load_modules_from_directory"

\* C4: load_modules_from_directory takes each name from the framework folder
\* of the category when it is there and from the working directory only
\* otherwise; a name found only in the working directory is validated and
\* returned like a built-in one; the first name found in neither place
\* raises ModuleNotFoundError naming both places, and nothing was appended
\* for it.
C4_FrameworkThenWorkingDirectory ==
    LoadedFromDirectory =>
        LET l == call.names
            f == call.folder
            stops == {i \in DOMAIN l : ~Usable(l[i], f)}
            k == IF stops = {} THEN Len(l) + 1
                 ELSE CHOOSE i \in stops : \A j \in stops : i <= j
        IN  /\ Len(out.modules) = k - 1
            /\ \A i \in 1..(k - 1) : out.modules[i] = Expected(l[i], f)
            /\ stops = {} => out.status = "ok"
            /\ (stops # {} /\ ~Findable(l[k], f)) =>
                  /\ out.status = "ModuleNotFoundError"
                  /\ out.name = l[k]
                  /\ out.tried = {f, Cwd}
            /\ (stops # {} /\ Findable(l[k], f)) =>
                  /\ out.status = "AttributeError"
                  /\ out.name = l[k]

\* a was in the process folder and in the working directory and came from
\* the framework; b, in neither, raised ModuleNotFoundError
C4_Witness ==
    /\ LoadedFromDirectory
    /\ call.names = <<"a", "b">>
    /\ call.folder = "process"
    /\ "a" \in present["process"] \cap present[Cwd]
    /\ "b" \notin present["process"] \cup present[Cwd]
    /\ out.status = "ModuleNotFoundError"
    /\ out.name = "b"
    /\ out.tried = {"process", Cwd}
    /\ out.modules = <<[loc |-> "process", name |-> "a"]>>

-----------------------------------------------------------------------------
(* Claims about add_dependencies (SpecDeps) *)

Expanded == pc = "expanded" /\ call.fn = "add_dependencies"

\* the dependency names the modules given to add_dependencies declare
Declared ==
    UNION {Elems(deps[call.modules[i]]) :
              i \in {j \in DOMAIN call.modules :
                        "dependencies" \in attrs[call.modules[j]]}}

FoundSomewhere(n) == \E l \in Locations : n \in present[l]

\* the module of the first of preproc, process, postproc, working directory
\* that holds the name
FirstFound(n) ==
    IF n \in present["preproc"] THEN [loc |-> "preproc", name |-> n]
    ELSE IF n \in present["process"] THEN [loc |-> "process", name |-> n]
    ELSE IF n \in present["postproc"] THEN [loc |-> "postproc", name |-> n]
    ELSE [loc |-> Cwd, name |-> n]

\* C3: for declared lists without a repeated name, the list add_dependencies
\* returns holds no module twice, also when a dependency is itself one of
\* the declared pipeline modules.
C3_NoModuleTwice ==
    (Expanded /\ out.status = "ok") =>
        \A i, j \in DOMAIN out.modules :
            out.modules[i] = out.modules[j] => i = j

\* C8: every dependency name of every resolved module is resolved on its
\* own, in the order preproc, process, postproc, working directory, so the
\* returned list holds, for each declared name found somewhere, the module
\* of the first location holding it.
C8_EachDependencyResolved ==
    (Expanded /\ out.status = "ok") =>
        \A n \in Declared :
            FoundSomewhere(n) => FirstFound(n) \in Elems(out.modules)

\* C9: when some declared dependency is found nowhere, add_dependencies
\* still returns: the modules it was given, in their order, followed only by
\* dependencies that were resolved, the missing one left out.
C9_MissingDependencyOmitted ==
    (Expanded /\ \E n \in Declared : ~FoundSomewhere(n)) =>
        /\ out.status = "ok"
        /\ Len(out.modules) >= Len(call.modules)
        /\ SubSeq(out.modules, 1, Len(call.modules)) = call.modules
        /\ \A i \in (Len(call.modules) + 1)..Len(out.modules) :
              /\ out.modules[i].name \in Declared
              /\ FoundSomewhere(out.modules[i].name)

\* C10: when every module given either has no dependencies attribute or
\* declares an empty list, add_dependencies returns the list it was given.
C10_NothingDeclaredNothingAdded ==
    (Expanded /\ Declared = {}) =>
        /\ out.status = "ok"
        /\ out.modules = call.modules

-----------------------------------------------------------------------------
(* Claims about the parameter file (SpecJson) *)

Overidden == pc = "done" /\ call.fn = "overide_from_json_file"

Listed == pc = "done" /\ call.fn = "get_modules_list"

\* the lines of the file that are not comment lines
Kept == {i \in DOMAIN file : file[i].kind \notin {"slash", "hash"}}

\* the text is JSON once the comment lines are gone
ValidJson == \A i \in Kept : file[i].kind = "member"

FileKeys == {file[i].key : i \in {j \in DOMAIN file : file[j].kind = "member"}}

\* the value the file gives a key: that of the last member with the key
FileValue(k) ==
    LET at == {i \in DOMAIN file : file[i].kind = "member" /\ file[i].key = k}
    IN  file[CHOOSE i \in at : \A j \in at : j <= i].val

HasTimeStep ==
    /\ "modules_process" \in FileKeys
    /\ "time_step" \in Elems(FileValue("modules_process"))

C6_ParseErrorSurfaces ==
    ((Overidden \/ Listed) /\ ~ValidJson) =>
        /\ out.status = "JSONDecodeError"
        /\ out.doc = [i \in 1..Cardinality(Kept) |->
                         file[CHOOSE j \in Kept :
                                 Cardinality({h \in Kept : h < j}) = i - 1]]
        /\ out.pos =
              Cardinality({h \in Kept :
                             \A j \in Kept : file[j].kind = "bad" => h < j})

\* C7: a file whose modules_process holds time_step makes
\* overide_from_json_file exit with the deprecation message, the parser
\* defaults as they were before the call and no module imported by it; a
\* file without time_step in modules_process never exits that way.
C7_TimeStepAbortsBeforeOverride ==
    Overidden =>
        /\ (ValidJson /\ HasTimeStep) =>
              /\ out.status = "SystemExit"
              /\ out.name = "time_step"
              /\ parser = call.parser
              /\ out.modules = <<>>
        /\ out.status = "SystemExit" => HasTimeStep

\* a file that sets modules_preproc and lists time_step in modules_process
\* made the call exit, modules_preproc still at its registered default
C7_Witness ==
    /\ Overidden
    /\ file = <<Member("modules_preproc", <<"a">>),
                Member("modules_process", <<"b", "time_step">>)>>
    /\ out.status = "SystemExit"
    /\ parser["modules_preproc"] = <<"oggm_shop">>

=============================================================================
